---- MODULE Spec2Model ----
(***************************************************************************)
(* A model of the /recommend handler of main.py: the credential check,     *)
(* the body and payload validation, the model call, the extraction and     *)
(* parsing of the JSON object in the model's text, the schedule builder,   *)
(* the email step and the response.                                        *)
(*                                                                         *)
(* JSON values and Python objects are records of one shape, so that any    *)
(* two of them can be compared:                                            *)
(*   k     "null" | "bool" | "num" | "str" | "arr" | "obj"                 *)
(*   s     the text of a bool, number or string                            *)
(*   items the elements of an array, the values of an object               *)
(*   keys  the keys of an object, parallel to items                        *)
(* The model's text is a sequence of lexical tokens [t, s]: punctuation,   *)
(* string literals, the literal null, a number, prose and whitespace.      *)
(* Braces occur as tokens of their own only (none inside string literals). *)
(***************************************************************************)
EXTENDS Integers, Sequences, FiniteSets, TLC

\* ------------------------------------------------------------ bounds
\* longest model text enumerated token by token
MaxRawLen == 3
\* most entries of a generated treatment_schedule list
MaxEntries == 2

\* ------------------------------------------------------------ JSON values
JNull == [k |-> "null", s |-> "", items |-> <<>>, keys |-> <<>>]
JBool(b) == [k |-> "bool", s |-> b, items |-> <<>>, keys |-> <<>>]
JNum(n) == [k |-> "num", s |-> n, items |-> <<>>, keys |-> <<>>]
JStr(x) == [k |-> "str", s |-> x, items |-> <<>>, keys |-> <<>>]
JArr(xs) == [k |-> "arr", s |-> "", items |-> xs, keys |-> <<>>]
JObj(ks, vs) == [k |-> "obj", s |-> "", items |-> vs, keys |-> ks]
\* Python's None is what JSON null loads to
None == JNull
EmptyDict == JObj(<<>>, <<>>)
EmptyList == JArr(<<>>)

\* the indexes at which key k occurs in the object d
KeyIdx(d, key) == {i \in 1..Len(d.keys) : d.keys[i] = key}

Max(S) == CHOOSE x \in S : \A y \in S : y <= x

\* d[key] of a dict: json.loads keeps the last of a repeated key
DictGet(d, key) == d.items[Max(KeyIdx(d, key))]

\* bool(v): the truth value Python gives a loaded JSON value
Truthy(v) ==
    CASE v.k = "null" -> FALSE
      [] v.k = "bool" -> v.s = "true"
      [] v.k = "num" -> v.s # "0"
      [] v.k = "str" -> v.s # ""
      [] v.k = "arr" -> Len(v.items) > 0
      [] v.k = "obj" -> Len(v.keys) > 0

\* ------------------------------------------------------------ tokens
Tok(t, s) == [t |-> t, s |-> s]
LB == Tok("p", "{")
RB == Tok("p", "}")
LS == Tok("p", "[")
RS == Tok("p", "]")
COLON == Tok("p", ":")
COMMA == Tok("p", ",")
TNull == Tok("lit", "null")
TNum == Tok("num", "1")
TStr(x) == Tok("str", x)
Prose == Tok("w", "x")
WS == Tok("ws", " ")

\* ------------------------------------------------------------ str methods
\* text.find("{"): the 0-based index of the first occurrence, -1 if none
Find(text, tok) ==
    LET hits == {i \in 1..Len(text) : text[i] = tok}
    IN IF hits = {} THEN -1 ELSE (CHOOSE i \in hits : \A j \in hits : i <= j) - 1

\* text.rfind("}"): the 0-based index of the last occurrence, -1 if none
RFind(text, tok) ==
    LET hits == {i \in 1..Len(text) : text[i] = tok}
    IN IF hits = {} THEN -1 ELSE Max(hits) - 1

\* text[a:b] for 0 <= a, b: empty when a >= b
Slice(text, a, b) ==
    LET hi == IF b > Len(text) THEN Len(text) ELSE b
    IN IF a >= hi THEN <<>> ELSE SubSeq(text, a + 1, hi)

\* text.strip(): leading and trailing whitespace removed
Strip(text) ==
    LET ink == {i \in 1..Len(text) : text[i] # WS}
    IN IF ink = {} THEN <<>>
       ELSE SubSeq(text, CHOOSE i \in ink : \A j \in ink : i <= j, Max(ink))

\* ------------------------------------------------------------ json.loads
\* A parse result: ok, the value, and the position after it.
PFail == [ok |-> FALSE, v |-> JNull, next |-> 0]
POk(v, n) == [ok |-> TRUE, v |-> v, next |-> n]

RECURSIVE SkipWs(_, _)
SkipWs(toks, i) ==
    IF i <= Len(toks) /\ toks[i] = WS THEN SkipWs(toks, i + 1) ELSE i

At(toks, i, tok) == i <= Len(toks) /\ toks[i] = tok

RECURSIVE ParseValue(_, _)
RECURSIVE ParseElements(_, _, _)
RECURSIVE ParseMembers(_, _, _, _)

\* the elements of an array after "[" or after a ",": i is at an element
ParseElements(toks, i, acc) ==
    LET e == ParseValue(toks, i)
    IN IF ~e.ok THEN PFail
       ELSE LET j == SkipWs(toks, e.next)
                acc2 == Append(acc, e.v)
            IN IF At(toks, j, RS) THEN POk(JArr(acc2), j + 1)
               ELSE IF At(toks, j, COMMA)
                    THEN ParseElements(toks, SkipWs(toks, j + 1), acc2)
                    ELSE PFail

\* the members of an object after "{" or after a ",": i is at a key
ParseMembers(toks, i, ks, vs) ==
    IF ~(i <= Len(toks) /\ toks[i].t = "str") THEN PFail
    ELSE LET c == SkipWs(toks, i + 1)
         IN IF ~At(toks, c, COLON) THEN PFail
            ELSE LET e == ParseValue(toks, SkipWs(toks, c + 1))
                 IN IF ~e.ok THEN PFail
                    ELSE LET j == SkipWs(toks, e.next)
                             ks2 == Append(ks, toks[i].s)
                             vs2 == Append(vs, e.v)
                         IN IF At(toks, j, RB) THEN POk(JObj(ks2, vs2), j + 1)
                            ELSE IF At(toks, j, COMMA)
                                 THEN ParseMembers(toks, SkipWs(toks, j + 1), ks2, vs2)
                                 ELSE PFail

\* one JSON value at position i (whitespace before it already skipped)
ParseValue(toks, i) ==
    IF i > Len(toks) THEN PFail
    ELSE LET tk == toks[i]
         IN CASE tk = TNull -> POk(JNull, i + 1)
              [] tk.t = "num" -> POk(JNum(tk.s), i + 1)
              [] tk.t = "str" -> POk(JStr(tk.s), i + 1)
              [] tk = LS ->
                   LET j == SkipWs(toks, i + 1)
                   IN IF At(toks, j, RS) THEN POk(EmptyList, j + 1)
                      ELSE ParseElements(toks, j, <<>>)
              [] tk = LB ->
                   LET j == SkipWs(toks, i + 1)
                   IN IF At(toks, j, RB) THEN POk(EmptyDict, j + 1)
                      ELSE ParseMembers(toks, j, <<>>, <<>>)
              [] OTHER -> PFail

\* json.loads(s): the value, or a JSONDecodeError (ok = FALSE); text after
\* the value other than whitespace is "Extra data"
JsonLoads(toks) ==
    LET r == ParseValue(toks, SkipWs(toks, 1))
    IN IF r.ok /\ SkipWs(toks, r.next) = Len(toks) + 1 THEN r ELSE PFail

\* ------------------------------------------------------------ validate_payload
required ==
    << "plant_name", "disease_percentage", "previous_fertilizers",
       "acres", "location", "predicted_class", "email" >>

\* a JSON string that names every required field
AllNamesText ==
    "plant_name disease_percentage previous_fertilizers acres location predicted_class email"

\* needle in hay, for the strings a request body is drawn from: "", "abc",
\* a single field name, and AllNamesText
StrContains(hay, needle) == hay = needle \/ hay = AllNamesText

\* Python's `key in data`: [raises |-> TRUE] is the TypeError of a
\* container test on an int or a bool
Contains(data, key) ==
    CASE data.k = "obj" -> [raises |-> FALSE, v |-> KeyIdx(data, key) # {}]
      [] data.k = "arr" ->
           [raises |-> FALSE, v |-> \E i \in 1..Len(data.items) : data.items[i] = JStr(key)]
      [] data.k = "str" -> [raises |-> FALSE, v |-> StrContains(data.s, key)]
      [] OTHER -> [raises |-> TRUE, v |-> FALSE]

\* the strings float() accepts among those the model draws field values from
FloatLiterals == {"12.5", " 3e2 ", "nan"}
\* and those it rejects with ValueError
NonFloatLiterals == {"", "abc", "12,5"}

\* float(v): "ok", or the exception it raises
Float(v) ==
    CASE v.k = "num" -> IF v.s = "big" THEN "OverflowError" ELSE "ok"
      [] v.k = "bool" -> "ok"
      [] v.k = "str" -> IF v.s \in FloatLiterals THEN "ok" ELSE "ValueError"
      [] OTHER -> "TypeError"

\* float(data[key]): data[key] raises TypeError unless data is a dict
FloatOfField(data, key) ==
    IF data.k # "obj" THEN "TypeError"
    ELSE IF KeyIdx(data, key) = {} THEN "KeyError"
    ELSE Float(DictGet(data, key))

\* ', '.join(names)
RECURSIVE Join(_)
Join(names) ==
    IF Len(names) = 0 THEN ""
    ELSE IF Len(names) = 1 THEN names[1]
    ELSE names[1] \o ", " \o Join(Tail(names))

\* [k for k in seq if k not in data], data a container
RECURSIVE MissingOf(_, _)
MissingOf(seq, data) ==
    IF seq = <<>> THEN <<>>
    ELSE IF Contains(data, Head(seq)).v THEN MissingOf(Tail(seq), data)
    ELSE <<Head(seq)>> \o MissingOf(Tail(seq), data)

\* validate_payload with the float() of acres forgotten
validate_payload_OnlyPercentage(data) ==
    IF Contains(data, required[1]).raises
    THEN [raised |-> TRUE, ok |-> FALSE, err |-> "TypeError"]
    ELSE LET missing == MissingOf(required, data)
         IN IF missing # <<>>
            THEN [raised |-> FALSE, ok |-> FALSE, err |-> "Missing: " \o Join(missing)]
            ELSE IF FloatOfField(data, "disease_percentage") # "ok"
                 THEN [raised |-> FALSE, ok |-> FALSE,
                       err |-> "disease_percentage and acres must be numbers."]
                 ELSE [raised |-> FALSE, ok |-> TRUE, err |-> ""]

\* validate_payload(data): (ok, err), or raised = TRUE when the exception
\* of `k not in data` leaves the function
validate_payload(data) ==
    IF Contains(data, required[1]).raises
    THEN [raised |-> TRUE, ok |-> FALSE, err |-> "TypeError"]
    ELSE LET missing == MissingOf(required, data)
         IN IF missing # <<>>
            THEN [raised |-> FALSE, ok |-> FALSE, err |-> "Missing: " \o Join(missing)]
            ELSE IF FloatOfField(data, "disease_percentage") # "ok"
                    \/ FloatOfField(data, "acres") # "ok"
                 THEN [raised |-> FALSE, ok |-> FALSE,
                       err |-> "disease_percentage and acres must be numbers."]
                 ELSE [raised |-> FALSE, ok |-> TRUE, err |-> ""]

\* ------------------------------------------------------------ dates
\* A date is its proleptic Gregorian ordinal (date.toordinal(): 1 is
\* 0001-01-01); date + timedelta(days = n) adds n to it.
\* date.isoformat(): the year, month and day of the text YYYY-MM-DD
isoformat(ord) ==
    LET z == ord + 305
        era == z \div 146097
        doe == z % 146097
        yoe == (doe - doe \div 1460 + doe \div 36524 - doe \div 146096) \div 365
        doy == doe - (365 * yoe + yoe \div 4 - yoe \div 100)
        mp == (5 * doy + 2) \div 153
        d == doy - (153 * mp + 2) \div 5 + 1
        m == IF mp < 10 THEN mp + 3 ELSE mp - 9
        y == yoe + era * 400 + (IF m <= 2 THEN 1 ELSE 0)
    IN [year |-> y, month |-> m, day |-> d]

\* ------------------------------------------------------------ schedule builder
\* parsed.get("treatment_schedule", []); AttributeError unless a dict
GetSchedule(parsed) ==
    IF parsed.k # "obj" THEN [ok |-> FALSE, v |-> JNull]
    ELSE IF KeyIdx(parsed, "treatment_schedule") = {} THEN [ok |-> TRUE, v |-> EmptyList]
    ELSE [ok |-> TRUE, v |-> DictGet(parsed, "treatment_schedule")]

\* what enumerate(v) iterates over: the elements of a list, the keys of a
\* dict, the characters of a str; TypeError for None, a number, a bool
Iterate(v) ==
    CASE v.k = "arr" -> [ok |-> TRUE, items |-> v.items]
      [] v.k = "obj" -> [ok |-> TRUE, items |-> [i \in 1..Len(v.keys) |-> JStr(v.keys[i])]]
      [] v.k = "str" -> [ok |-> TRUE, items |-> [i \in 1..Len(v.s) |-> JStr("c")]]
      [] OTHER -> [ok |-> FALSE, items |-> <<>>]

\* t.get("product", "Unknown")
ProductOf(t) ==
    IF KeyIdx(t, "product") = {} THEN JStr("Unknown") ELSE DictGet(t, "product")

\* ScheduleEntry with the offset counted from idx instead of idx - 1
ScheduleEntry_OffByOne(t, idx, today) ==
    [pesticide_name |-> ProductOf(t),
     scheduled_date |-> isoformat(today + idx * 7),
     completed |-> FALSE]

\* the entry appended at position idx (from 1) for the raw entry t
ScheduleEntry(t, idx, today) ==
    [pesticide_name |-> ProductOf(t),
     scheduled_date |-> isoformat(today + (idx - 1) * 7),
     completed |-> FALSE]

\* the loop of recommend over treatment_schedule: the schedules and the
\* pesticides, or the exception that ends it (t.get on what is no dict)
BuildSchedules(parsed, today) ==
    LET g == GetSchedule(parsed)
        it == Iterate(g.v)
    IN IF ~g.ok THEN [ok |-> FALSE, err |-> "AttributeError", schedules |-> <<>>, pesticides |-> <<>>]
       ELSE IF ~it.ok THEN [ok |-> FALSE, err |-> "TypeError", schedules |-> <<>>, pesticides |-> <<>>]
       ELSE IF \E i \in 1..Len(it.items) : it.items[i].k # "obj"
       THEN [ok |-> FALSE, err |-> "AttributeError", schedules |-> <<>>, pesticides |-> <<>>]
       ELSE [ok |-> TRUE, err |-> "",
             schedules |-> [i \in 1..Len(it.items) |-> ScheduleEntry(it.items[i], i, today)],
             pesticides |-> [i \in 1..Len(it.items) |-> ProductOf(it.items[i])]]

\* ------------------------------------------------------------ extraction
\* ExtractJson loading as soon as either bracket is found
ExtractJson_EitherBracket(raw) ==
    LET text == Strip(raw)
        start == Find(text, LB)
        end == RFind(text, RB)
    IN IF start # -1 \/ end # -1
       THEN LET r == JsonLoads(Slice(text, IF start = -1 THEN 0 ELSE start, end + 1))
            IN [ok |-> r.ok, parsed |-> r.v]
       ELSE [ok |-> TRUE, parsed |-> EmptyDict]

\* ExtractJson with the decode error swallowed into an empty dict
ExtractJson_Swallow(raw) ==
    LET text == Strip(raw)
        start == Find(text, LB)
        end == RFind(text, RB)
    IN IF start # -1 /\ end # -1
       THEN LET r == JsonLoads(Slice(text, start, end + 1))
            IN [ok |-> TRUE, parsed |-> IF r.ok THEN r.v ELSE EmptyDict]
       ELSE [ok |-> TRUE, parsed |-> EmptyDict]

\* lines 129-135: strip the text, take the first "{" to the last "}", load it
ExtractJson(raw) ==
    LET text == Strip(raw)
        start == Find(text, LB)
        end == RFind(text, RB)
    IN IF start # -1 /\ end # -1
       THEN LET r == JsonLoads(Slice(text, start, end + 1))
            IN [ok |-> r.ok, parsed |-> r.v]
       ELSE [ok |-> TRUE, parsed |-> EmptyDict]

\* ------------------------------------------------------------ send_email
\* send_email: no call without the key; an exception of the provider is
\* caught; outcome is what resend.Emails.send does when called
FailureResult(msg) == [kind |-> "failure", success |-> FALSE, error |-> msg]
ProviderResult == [kind |-> "provider", success |-> TRUE, error |-> ""]
NoResult == [kind |-> "none", success |-> FALSE, error |-> ""]

\* send_email without its try/except: the provider's exception leaves it
send_email_NoCatch(key, outcome) ==
    IF ~key
    THEN [called |-> FALSE, raised |-> FALSE,
          result |-> FailureResult("Missing RESEND_API_KEY")]
    ELSE IF outcome = "raises"
    THEN [called |-> TRUE, raised |-> TRUE, result |-> NoResult]
    ELSE [called |-> TRUE, raised |-> FALSE, result |-> ProviderResult]

\* raised: whether an exception leaves send_email
send_email(key, outcome) ==
    IF ~key
    THEN [called |-> FALSE, raised |-> FALSE,
          result |-> FailureResult("Missing RESEND_API_KEY")]
    ELSE IF outcome = "raises"
    THEN [called |-> TRUE, raised |-> FALSE, result |-> FailureResult("ResendError")]
    ELSE [called |-> TRUE, raised |-> FALSE, result |-> ProviderResult]

\* ------------------------------------------------------------ inputs
\* request bodies: what the validator is given
RECURSIVE PickKeys(_, _)
\* the required names whose index is in S, in canonical order from i on
PickKeys(S, i) ==
    IF i > Len(required) THEN <<>>
    ELSE (IF i \in S THEN <<required[i]>> ELSE <<>>) \o PickKeys(S, i + 1)

\* values a numeric field is given
NumericFieldValues ==
    {JNum("5"), JNum("big"), JBool("true"), JNull, EmptyList, EmptyDict}
    \cup {JStr(x) : x \in FloatLiterals \cup NonFloatLiterals}

\* the value of field key in a generated object
FieldValue(key, dp, ac) ==
    CASE key = "disease_percentage" -> dp
      [] key = "acres" -> ac
      [] OTHER -> JStr("abc")

\* the JSON object with the required fields of S, dp and ac as the numeric
\* fields' values, and one more key when extra
ObjectBody(S, dp, ac, extra) ==
    LET ks == PickKeys(S, 1)
        vs == [i \in 1..Len(ks) |-> FieldValue(ks[i], dp, ac)]
    IN IF extra THEN JObj(ks \o <<"notes">>, vs \o <<JStr("abc")>>) ELSE JObj(ks, vs)

ObjectBodies ==
    {ObjectBody(S, dp, ac, extra) :
        S \in SUBSET (1..Len(required)),
        dp \in NumericFieldValues, ac \in NumericFieldValues, extra \in BOOLEAN}

OtherJsonBodies ==
    {JNull, JBool("true"), JBool("false"), JNum("0"), JNum("5"),
     JStr(""), JStr("abc"), JStr("plant_name"), JStr(AllNamesText),
     EmptyList, JArr(<<JStr("abc")>>), JArr([i \in 1..Len(required) |-> JStr(required[i])])}

\* a request body: absent, not JSON, or a JSON value
Body(raw, v) == [raw |-> raw, v |-> v]
Bodies ==
    {Body("absent", JNull), Body("malformed", JNull)}
    \cup {Body("json", v) : v \in ObjectBodies \cup OtherJsonBodies}

ValidBody == Body("json", ObjectBody(1..Len(required), JStr("12.5"), JNum("5"), FALSE))

\* a few bodies, one for each way through the validator
SampleBodies ==
    {ValidBody, Body("absent", JNull), Body("json", JNum("5")), Body("json", EmptyDict),
     Body("json", ObjectBody({1, 2, 3}, JNum("5"), JNum("5"), FALSE)),
     Body("json", ObjectBody(1..Len(required), JStr("abc"), JNum("5"), FALSE))}

\* model texts: the tokens json.dumps(v) would be made of
RECURSIVE Serialize(_)
RECURSIVE SerializeItems(_)
RECURSIVE SerializeMembers(_, _)
SerializeItems(xs) ==
    IF Len(xs) = 0 THEN <<>>
    ELSE IF Len(xs) = 1 THEN Serialize(xs[1])
    ELSE Serialize(xs[1]) \o <<COMMA, WS>> \o SerializeItems(Tail(xs))
SerializeMembers(ks, vs) ==
    IF Len(ks) = 0 THEN <<>>
    ELSE <<TStr(ks[1]), COLON>> \o Serialize(vs[1])
         \o (IF Len(ks) = 1 THEN <<>> ELSE <<COMMA>> \o SerializeMembers(Tail(ks), Tail(vs)))
Serialize(v) ==
    CASE v.k = "null" -> <<TNull>>
      [] v.k = "num" -> <<Tok("num", v.s)>>
      [] v.k = "str" -> <<TStr(v.s)>>
      [] v.k = "arr" -> <<LS>> \o SerializeItems(v.items) \o <<RS>>
      [] v.k = "obj" -> <<LB>> \o SerializeMembers(v.keys, v.items) \o <<RB>>

\* raw entries of a treatment_schedule list: mappings with and without a
\* product, and two that are no mappings
EntryValues ==
    {EmptyDict,
     JObj(<<"product">>, <<JStr("A")>>),
     JObj(<<"product", "timing">>, <<JStr("B"), JStr("Day 7")>>),
     JNull,
     JStr("A")}

ScheduleLists == UNION {{JArr(xs) : xs \in [1..n -> EntryValues]} : n \in 0..MaxEntries}

\* values of the treatment_schedule key
ScheduleValues ==
    ScheduleLists
    \cup {JNull, JNum("1"), JStr(""), JStr("A"), EmptyDict, JObj(<<"product">>, <<JStr("A")>>)}

Recommendations ==
    {JObj(<<"confidence", "treatment_schedule">>, <<JNum("0.9"), v>>) : v \in ScheduleValues}
    \cup {JObj(<<"confidence">>, <<JNum("0.9")>>)}

\* the text around the JSON object: nothing, whitespace, prose
Wrappers == {<< <<>>, <<>> >>, << <<WS>>, <<WS>> >>, << <<Prose, WS>>, <<WS, Prose>> >>}

WrappedTexts == {w[1] \o Serialize(v) \o w[2] : w \in Wrappers, v \in Recommendations}

RawAlphabet ==
    {LB, RB, LS, RS, COLON, COMMA, TStr("treatment_schedule"), TNull, TNum, Prose, WS}

\* every token sequence of at most MaxRawLen tokens
RawTexts == UNION {[1..n -> RawAlphabet] : n \in 0..MaxRawLen}

Texts == RawTexts \cup WrappedTexts

\* a few texts, one for each way through the parser and the builder
SampleTexts ==
    {<<>>, <<Prose>>, <<LB, Prose, RB>>,
     Serialize(JObj(<<"treatment_schedule">>, <<JNull>>)),
     <<Prose>> \o Serialize(JObj(<<"treatment_schedule">>,
        <<JArr(<<JObj(<<"product">>, <<JStr("A")>>), EmptyDict>>)>>))}

\* datetime.utcnow().date() of a request: 2024-02-23, 2025-12-27, 2026-11-02
Todays == {738939, 739612, 739922}

\* ------------------------------------------------------------ state
VARIABLES
    GOOGLE_API_KEY,   \* whether the AI credential was set at start
    RESEND_API_KEY,   \* whether the email credential was set at start
    pc,               \* where the handler of the request in hand is
    method,           \* request.method
    body,             \* the request body
    data,             \* request.get_json(silent=True)
    text,             \* the model's text
    parsed,           \* the dict loaded from the text
    today,            \* the reference date of the schedule
    schedules,        \* the schedule entries
    pesticides,       \* the flat list of names
    email_response,   \* what send_email returned
    response,         \* the HTTP response
    trace,            \* the steps of the request in hand, in order
    modelCalls,       \* calls of generate_content in the request in hand
    emailAttempts,    \* calls of send_email in the request in hand
    emailCalls,       \* calls of resend.Emails.send in the request in hand
    emailOutcome,     \* what resend.Emails.send did: "returns", "raises", "not_called"
    responses         \* responses returned for the request in hand

vars ==
    << GOOGLE_API_KEY, RESEND_API_KEY, pc, method, body, data, text, parsed, today,
       schedules, pesticides, email_response, response, trace, modelCalls,
       emailAttempts, emailCalls, emailOutcome, responses >>

config == << GOOGLE_API_KEY, RESEND_API_KEY >>
request == << method, body >>
counters == << modelCalls, emailAttempts, emailCalls, emailOutcome >>
built == << today, schedules, pesticides >>

NoResponse ==
    [code |-> 0, status |-> "", error |-> "", pesticides |-> <<>>,
     treatment_schedules |-> <<>>, email_response |-> NoResult]

\* jsonify({"status": status, "error": error}), code
ErrorResponse(code, status, error) ==
    [code |-> code, status |-> status, error |-> error, pesticides |-> <<>>,
     treatment_schedules |-> <<>>, email_response |-> NoResult]

\* jsonify({"status": "ok"}), 200
OkResponse == ErrorResponse(200, "ok", "")

\* the response of Flask to an exception that leaves the handler
UnhandledResponse(e) == ErrorResponse(500, "unhandled", e)

SuccessResponse(ps, ss, er) ==
    [code |-> 200, status |-> "success", error |-> "", pesticides |-> ps,
     treatment_schedules |-> ss, email_response |-> er]

\* the handler returns r, having done the step named
Return(step, r) ==
    /\ response' = r
    /\ responses' = responses + 1
    /\ trace' = trace \o <<step, "response">>
    /\ pc' = "responded"

\* the handler goes on to step p, having done the step named
Goto(step, p) ==
    /\ trace' = Append(trace, step)
    /\ pc' = p
    /\ UNCHANGED << response, responses >>

Init ==
    /\ GOOGLE_API_KEY \in BOOLEAN
    /\ RESEND_API_KEY \in BOOLEAN
    /\ pc = "idle"
    /\ method = "POST"
    /\ body = Body("absent", JNull)
    /\ data = None
    /\ text = <<>>
    /\ parsed = EmptyDict
    /\ today = 0
    /\ schedules = <<>>
    /\ pesticides = <<>>
    /\ email_response = NoResult
    /\ response = NoResponse
    /\ trace = <<>>
    /\ modelCalls = 0
    /\ emailAttempts = 0
    /\ emailCalls = 0
    /\ emailOutcome = "not_called"
    /\ responses = 0

\* a request for /recommend arrives, with a body of B
Receive(B) ==
    /\ pc = "idle"
    /\ \E m \in {"POST", "OPTIONS"}, b \in B :
        /\ method' = m
        /\ body' = b
    /\ pc' = "received"
    /\ UNCHANGED << config, data, text, parsed, built, email_response, response,
                    trace, counters, responses >>

\* the response is sent and the request's locals are discarded
Finish ==
    /\ pc = "responded"
    /\ pc' = "idle"
    /\ method' = "POST"
    /\ body' = Body("absent", JNull)
    /\ data' = None
    /\ text' = <<>>
    /\ parsed' = EmptyDict
    /\ today' = 0
    /\ schedules' = <<>>
    /\ pesticides' = <<>>
    /\ email_response' = NoResult
    /\ response' = NoResponse
    /\ trace' = <<>>
    /\ modelCalls' = 0
    /\ emailAttempts' = 0
    /\ emailCalls' = 0
    /\ emailOutcome' = "not_called"
    /\ responses' = 0
    /\ UNCHANGED config

\* line 110: the pre-flight request is answered before anything else
Options ==
    /\ pc = "received"
    /\ method = "OPTIONS"
    /\ Return("preflight", OkResponse)
    /\ UNCHANGED << config, request, data, text, parsed, built, email_response, counters >>

\* the credential check left out
CheckCredential_Skipped ==
    /\ pc = "received"
    /\ method # "OPTIONS"
    /\ Goto("credential", "cred_ok")
    /\ UNCHANGED << config, request, data, text, parsed, built, email_response, counters >>

\* line 113: the credential check
CheckCredential ==
    /\ pc = "received"
    /\ method # "OPTIONS"
    /\ IF ~GOOGLE_API_KEY
       THEN Return("credential", ErrorResponse(500, "fail", "Missing GOOGLE_API_KEY env var"))
       ELSE Goto("credential", "cred_ok")
    /\ UNCHANGED << config, request, data, text, parsed, built, email_response, counters >>

\* request.get_json(silent=True): None when the body is missing or no JSON
get_json(b) == IF b.raw = "json" THEN b.v ELSE None

\* lines 116-118: the body
GetJson ==
    /\ pc = "cred_ok"
    /\ data' = get_json(body)
    /\ IF ~Truthy(data')
       THEN Return("body", ErrorResponse(400, "fail", "Expected JSON body"))
       ELSE Goto("body", "json_ok")
    /\ UNCHANGED << config, request, text, parsed, built, email_response, counters >>

\* the validation's verdict ignored
Validate_Lenient ==
    /\ pc = "json_ok"
    /\ LET r == validate_payload(data)
       IN IF r.raised THEN Return("validation", UnhandledResponse(r.err))
          ELSE Goto("validation", "validated")
    /\ UNCHANGED << config, request, data, text, parsed, built, email_response, counters >>

\* lines 120-122: the payload validation
Validate ==
    /\ pc = "json_ok"
    /\ LET r == validate_payload(data)
       IN IF r.raised THEN Return("validation", UnhandledResponse(r.err))
          ELSE IF ~r.ok THEN Return("validation", ErrorResponse(400, "fail", r.err))
          ELSE Goto("validation", "validated")
    /\ UNCHANGED << config, request, data, text, parsed, built, email_response, counters >>

\* what the model collaborator does when called: it raises (as does
\* resp.text of a blocked response), or resp.text is None, or a text of T
ModelOutcomes(T) ==
    {[kind |-> "raises", text |-> <<>>], [kind |-> "none", text |-> <<>>]}
    \cup {[kind |-> "text", text |-> t] : t \in T}

\* lines 126-129: the prompt and the one call of the model
CallModel(T) ==
    /\ pc = "validated"
    /\ modelCalls' = modelCalls + 1
    /\ \E o \in ModelOutcomes(T) :
        IF o.kind = "raises"
        THEN /\ Return("model", ErrorResponse(500, "fail", "ModelError"))
             /\ text' = text
        ELSE /\ Goto("model", "model_called")
             /\ text' = o.text
    /\ UNCHANGED << config, request, data, parsed, built, email_response,
                    emailAttempts, emailCalls, emailOutcome >>

\* lines 129-135: the extraction of the JSON object
Parse ==
    /\ pc = "model_called"
    /\ LET r == ExtractJson(text)
       IN IF ~r.ok
          THEN /\ Return("parse", ErrorResponse(500, "fail", "JSONDecodeError"))
               /\ parsed' = parsed
          ELSE /\ Goto("parse", "parsed")
               /\ parsed' = r.parsed
    /\ UNCHANGED << config, request, data, text, built, email_response, counters >>

\* lines 137-150: the schedule builder
BuildSchedule ==
    /\ pc = "parsed"
    /\ \E d \in Todays :
        LET r == BuildSchedules(parsed, d)
        IN IF ~r.ok
           THEN /\ Return("schedule", ErrorResponse(500, "fail", r.err))
                /\ UNCHANGED built
           ELSE /\ Goto("schedule", "schedule_built")
                /\ today' = d
                /\ schedules' = r.schedules
                /\ pesticides' = r.pesticides
    /\ UNCHANGED << config, request, data, text, parsed, email_response, counters >>

\* lines 154-259: the report and the email step
SendEmail ==
    /\ pc = "schedule_built"
    /\ emailAttempts' = emailAttempts + 1
    /\ \E outcome \in {"returns", "raises"} :
        LET r == send_email(RESEND_API_KEY, outcome)
        IN /\ emailCalls' = emailCalls + (IF r.called THEN 1 ELSE 0)
           /\ emailOutcome' = IF r.called THEN outcome ELSE "not_called"
           /\ IF r.raised
              THEN /\ Return("email", ErrorResponse(500, "fail", "ResendError"))
                   /\ email_response' = email_response
              ELSE /\ Goto("email", "email_attempted")
                   /\ email_response' = r.result
    /\ UNCHANGED << config, request, data, text, parsed, built, modelCalls >>

\* lines 261-266: the success response
Respond ==
    /\ pc = "email_attempted"
    /\ Return("assembly", SuccessResponse(pesticides, schedules, email_response))
    /\ UNCHANGED << config, request, data, text, parsed, built, email_response, counters >>

\* one step of the handler of the request in hand
Step(T) ==
    \/ Options
    \/ CheckCredential
    \/ GetJson
    \/ Validate
    \/ CallModel(T)
    \/ Parse
    \/ BuildSchedule
    \/ SendEmail
    \/ Respond

\* every request body, a few model texts
Next == Receive(Bodies) \/ Step(SampleTexts) \/ Finish

Spec == Init /\ [][Next]_vars

\* a few request bodies, every model text
NextModel == Receive(SampleBodies) \/ Step(Texts) \/ Finish

SpecModel == Init /\ [][NextModel]_vars

\* ------------------------------------------------------------ properties
\* the step named was done in the request in hand
Did(step) == \E i \in 1..Len(trace) : trace[i] = step

Responded == pc = "responded"

\* the required names that are no keys of the object d, in canonical order
MissingNames(d) ==
    SelectSeq(required, LAMBDA name : \A i \in 1..Len(d.keys) : d.keys[i] # name)

\* a POST with the AI credential set and a JSON object as the body
PostOfObject == GOOGLE_API_KEY /\ method = "POST" /\ body.raw = "json" /\ body.v.k = "obj"

\* C1: a POST (AI credential set) whose JSON object lacks some of the seven
\* required fields is answered 400 with the message "Missing: " and exactly
\* the missing names, comma-joined, in canonical order; also when all seven
\* are missing.
C1_MissingFieldsListed ==
    (Responded /\ PostOfObject /\ MissingNames(body.v) # <<>>)
        => /\ response.code = 400
           /\ response.status = "fail"
           /\ response.error = "Missing: " \o Join(MissingNames(body.v))

\* the value of the required field name in the body
Field(name) == body.v.items[CHOOSE i \in 1..Len(body.v.keys) : body.v.keys[i] = name]

\* all seven fields are present and one of the two numeric ones is no number
NonNumericBody ==
    /\ PostOfObject
    /\ MissingNames(body.v) = <<>>
    /\ Float(Field("disease_percentage")) # "ok" \/ Float(Field("acres")) # "ok"

\* C2: a POST (AI credential set) with all seven fields, of which
\* disease_percentage or acres does not parse as a number, is answered 400
\* with the fixed message, and neither the model nor the email collaborator
\* is called.
C2_NonNumericRejected ==
    NonNumericBody
        => /\ modelCalls = 0
           /\ emailAttempts = 0
           /\ emailCalls = 0
           /\ Responded =>
                response = ErrorResponse(400, "fail",
                               "disease_percentage and acres must be numbers.")

C2_Witness ==
    /\ Responded
    /\ NonNumericBody
    /\ Float(Field("disease_percentage")) = "ok"
    /\ Field("acres") = JStr("12,5")
    /\ response.code = 400

\* date.toordinal() of the date a text YYYY-MM-DD names
IsLeap(y) == y % 4 = 0 /\ (y % 100 # 0 \/ y % 400 = 0)
DaysInMonth(y, m) ==
    IF m = 2 THEN (IF IsLeap(y) THEN 29 ELSE 28)
    ELSE IF m \in {4, 6, 9, 11} THEN 30 ELSE 31
RECURSIVE DaysBeforeMonth(_, _)
DaysBeforeMonth(y, m) == IF m = 1 THEN 0 ELSE DaysBeforeMonth(y, m - 1) + DaysInMonth(y, m - 1)
OrdinalOf(iso) ==
    LET y == iso.year - 1
    IN y * 365 + y \div 4 - y \div 100 + y \div 400
       + DaysBeforeMonth(iso.year, iso.month) + iso.day

\* the treatment_schedule of parsed is a list of mappings
ListOfMappings ==
    /\ parsed.k = "obj"
    /\ \E i \in 1..Len(parsed.keys) : parsed.keys[i] = "treatment_schedule"
    /\ LET ts == parsed.items[CHOOSE i \in 1..Len(parsed.keys) :
                                 parsed.keys[i] = "treatment_schedule"]
       IN ts.k = "arr" /\ \A i \in 1..Len(ts.items) : ts.items[i].k = "obj"

RawList ==
    parsed.items[CHOOSE i \in 1..Len(parsed.keys) : parsed.keys[i] = "treatment_schedule"].items

\* the product of the raw entry e, "Unknown" when it has none
RawProduct(e) ==
    IF \E i \in 1..Len(e.keys) : e.keys[i] = "product"
    THEN e.items[CHOOSE i \in 1..Len(e.keys) : e.keys[i] = "product"]
    ELSE JStr("Unknown")

\* C3: for a parsed treatment_schedule list of n mappings and the date
\* today, the builder does not fail and yields n entries in input order:
\* the Nth has the Nth raw entry's product ("Unknown" without one), the
\* date today + 7 * (N - 1) days and completed false; pesticides has
\* length n and pesticides[N] is the Nth name. n = 0 yields empty lists.
C3_ScheduleBuilt ==
    (Did("schedule") /\ ListOfMappings)
        => /\ ~(Responded /\ response.status = "fail")
           /\ Len(schedules) = Len(RawList)
           /\ Len(pesticides) = Len(RawList)
           /\ \A n \in 1..Len(RawList) :
                /\ schedules[n].pesticide_name = RawProduct(RawList[n])
                /\ OrdinalOf(schedules[n].scheduled_date) = today + 7 * (n - 1)
                /\ schedules[n].scheduled_date.month \in 1..12
                /\ schedules[n].scheduled_date.day
                       \in 1..DaysInMonth(schedules[n].scheduled_date.year,
                                          schedules[n].scheduled_date.month)
                /\ schedules[n].completed = FALSE
                /\ pesticides[n] = schedules[n].pesticide_name

C3_Witness ==
    /\ Did("schedule")
    /\ ListOfMappings
    /\ Len(schedules) = MaxEntries
    /\ schedules[1].pesticide_name = JStr("Unknown")
    /\ schedules[2].scheduled_date.month # schedules[1].scheduled_date.month
    /\ Responded

C3_EmptyWitness ==
    Did("schedule") /\ ListOfMappings /\ RawList = <<>> /\ Responded /\ response.code = 200

HasTok(tok) == \E i \in 1..Len(text) : text[i] = tok

\* C4: when the model's text lacks a "{" or lacks a "}", parsing yields an
\* empty structure, the schedule and the pesticides are empty, the email is
\* still attempted and the request is answered 200 "success".
C4_NoBracesDegrades ==
    (Did("parse") /\ (~HasTok(LB) \/ ~HasTok(RB)))
        => /\ parsed = EmptyDict
           /\ ~(Responded /\ response.status = "fail")
           /\ Did("schedule") => schedules = <<>> /\ pesticides = <<>>
           /\ Responded =>
                /\ emailAttempts = 1
                /\ response = SuccessResponse(<<>>, <<>>, email_response)

C4_Witness ==
    /\ Responded
    /\ HasTok(LB)
    /\ ~HasTok(RB)
    /\ response.code = 200
    /\ emailAttempts = 1

\* the text from the first "{" to the last "}" of the stripped text
Braced == Slice(Strip(text), Find(Strip(text), LB), RFind(Strip(text), RB) + 1)

\* C5: when the model's text holds a "{" and a "}" and the text from the
\* first "{" to the last "}" is no valid JSON, the request is answered 500
\* "fail": never an empty schedule with 200.
C5_InvalidJsonFails ==
    (Did("parse") /\ HasTok(LB) /\ HasTok(RB) /\ ~JsonLoads(Braced).ok)
        => /\ Responded
           /\ response.code = 500
           /\ response.status = "fail"
           /\ ~Did("schedule")
           /\ emailAttempts = 0

C5_Witness ==
    /\ Responded
    /\ text = <<LB, Prose, RB>>
    /\ Did("parse")
    /\ response.code = 500

\* C6: once the model call, the parse and the schedule build succeeded, a
\* missing email credential or an exception of the email collaborator does
\* not fail the request: 200 "success" with the pesticides, the schedules
\* and the structured failure as email_response ("Missing RESEND_API_KEY"
\* and no call of the collaborator without the credential).
C6_EmailFailureEmbedded ==
    (Responded /\ Did("email") /\ (~RESEND_API_KEY \/ emailOutcome = "raises"))
        => /\ response.code = 200
           /\ response.status = "success"
           /\ response.pesticides = pesticides
           /\ response.treatment_schedules = schedules
           /\ response.email_response.kind = "failure"
           /\ response.email_response.success = FALSE
           /\ ~RESEND_API_KEY =>
                /\ response.email_response = FailureResult("Missing RESEND_API_KEY")
                /\ emailCalls = 0

C6_Witness ==
    /\ Responded
    /\ RESEND_API_KEY
    /\ emailOutcome = "raises"
    /\ Len(response.treatment_schedules) = MaxEntries
    /\ response.code = 200

C6_NoKeyWitness ==
    Responded /\ ~RESEND_API_KEY /\ Did("email") /\ emailCalls = 0 /\ response.code = 200

ConfigurationError == ErrorResponse(500, "fail", "Missing GOOGLE_API_KEY env var")

\* C7 as stated: without the AI credential every invocation of /recommend,
\* whatever the method and body, is answered with the configuration error.
C7_EveryInvocationFailsFast ==
    (~GOOGLE_API_KEY /\ Responded)
        => response = ConfigurationError /\ modelCalls = 0 /\ emailAttempts = 0

\* C7 (amended): without the AI credential every POST to /recommend,
\* whatever the body, is answered with the configuration error (500,
\* "fail", naming the credential) before the body is read or validated
\* and without a call of the model or the email collaborator.
C7_PostFailsFast ==
    (~GOOGLE_API_KEY /\ method = "POST")
        => /\ pc \in {"idle", "received", "responded"}
           /\ ~Did("body")
           /\ ~Did("validation")
           /\ modelCalls = 0
           /\ emailAttempts = 0
           /\ emailCalls = 0
           /\ Responded => response = ConfigurationError

C7_Witness ==
    ~GOOGLE_API_KEY /\ method = "POST" /\ body = ValidBody /\ Responded /\ response.code = 500

\* the loaded JSON has no treatment_schedule, or one that is no list of
\* mappings
UnshapedSchedule ==
    /\ parsed.k = "obj"
    /\ ~ListOfMappings

\* C8: when the JSON extracted from the model's text is valid but its
\* treatment_schedule is missing, null, no list or holds entries that are
\* no mappings, the request does not end in an error response.
C8_UnshapedDegrades ==
    (Did("parse") /\ ExtractJson(text).ok /\ UnshapedSchedule)
        => ~(Responded /\ response.status # "success")

\* C9: with the AI credential set, every POST whose body is missing, is no
\* JSON or fails validation ends in a 400 "fail" response, whatever JSON
\* value the body is.
C9_BadBodyIs400 ==
    (GOOGLE_API_KEY /\ method = "POST" /\ Responded /\ ~Did("model"))
        => response.code = 400 /\ response.status = "fail"

\* the steps of a request, in order
Order ==
    << "credential", "body", "validation", "model", "parse", "schedule", "email", "assembly" >>

\* trace without its closing "response"
StepsDone == IF Did("response") THEN SubSeq(trace, 1, Len(trace) - 1) ELSE trace

IsPrefix(a, b) == Len(a) <= Len(b) /\ \A i \in 1..Len(a) : a[i] = b[i]

\* what holds of every state of a request
C10_State ==
    /\ IsPrefix(StepsDone, Order) \/ StepsDone = <<"preflight">>
    /\ Cardinality({i \in 1..Len(trace) : trace[i] = "response"}) = responses
    /\ responses <= 1
    /\ Responded <=> responses = 1
    /\ Responded <=> response # NoResponse
    /\ Responded => trace[Len(trace)] = "response"
    /\ modelCalls <= 1
    /\ modelCalls = 1 <=> Did("model")
    /\ Did("model") =>
         GOOGLE_API_KEY /\ Truthy(data) /\ validate_payload(data).ok /\ data = get_json(body)
    /\ emailAttempts <= 1
    /\ emailCalls <= emailAttempts
    /\ emailAttempts = 1 <=> Did("email")
    /\ Did("email") =>
         /\ modelCalls = 1
         /\ ExtractJson(text) = [ok |-> TRUE, parsed |-> parsed]
         /\ BuildSchedules(parsed, today).ok
    /\ (Responded /\ response.status # "success") => emailAttempts = 0 /\ emailCalls = 0
    /\ (Responded /\ response.status = "success") => StepsDone = Order

\* how far the handler is
Rank(p) ==
    CASE p = "idle" -> 0
      [] p = "received" -> 1
      [] p = "cred_ok" -> 2
      [] p = "json_ok" -> 3
      [] p = "validated" -> 4
      [] p = "model_called" -> 5
      [] p = "parsed" -> 6
      [] p = "schedule_built" -> 7
      [] p = "email_attempted" -> 8
      [] p = "responded" -> 9

\* what holds of every step: the handler only moves on, and nothing
\* follows the response but the end of the request
C10_Forward ==
    \/ Rank(pc') > Rank(pc) /\ ~Responded
    \/ Responded /\ pc' = "idle"

\* C10: the steps of a request occur in the fixed order, none retried or
\* resumed; the model is called at most once and only after the credential
\* check and the validation passed; the email is attempted at most once
\* and only after the model returned and the parse and the build
\* succeeded; a failure before the email step ends in an error response
\* with no email; a request has exactly one response, its last step.
C10_FixedOrder == [](C10_State) /\ [][C10_Forward]_vars

C10_Witness ==
    Responded /\ StepsDone = Order /\ emailCalls = 1 /\ Len(schedules) = 2

====
